---- MODULE Spec2Model ----
(***************************************************************************)
(* op-dotenv: the .env parser (ParseEnvFileToItem), the .env serializer   *)
(* (WriteItemToEnvFile) and the field-type heuristic (getFieldType).      *)
(*                                                                         *)
(* A Go string is modelled as a sequence of one-character strings, a file  *)
(* as one such sequence with "\n" between its lines.                       *)
(***************************************************************************)
EXTENDS Integers, Sequences, FiniteSets, TLC

\* ------------------------------------------------------------------------
\* Bounds of the model
\* ------------------------------------------------------------------------
\* number of lines of the user's .env file that the scanner delivers
MaxLines == 4
\* number of fields of an item fetched from the store
MaxStoreFields == 2
\* length of the names handed to getFieldType
MaxNameLen == 3

\* ------------------------------------------------------------------------
\* Program constants
\* ------------------------------------------------------------------------
\* bufio.MaxScanTokenSize, the limit of the default bufio.Scanner
MaxScanTokenSize == 65536
\* strings.Repeat("-", 44) in the header block
HeaderDashes == 44

\* ------------------------------------------------------------------------
\* Strings
\* ------------------------------------------------------------------------
LowerLetters == <<"a","b","c","d","e","f","g","h","i","j","k","l","m",
                  "n","o","p","q","r","s","t","u","v","w","x","y","z">>
UpperLetters == <<"A","B","C","D","E","F","G","H","I","J","K","L","M",
                  "N","O","P","Q","R","S","T","U","V","W","X","Y","Z">>

IsUpper(c) == \E i \in 1..26 : UpperLetters[i] = c
IsDigit(c) == c \in {"0","1","2","3","4","5","6","7","8","9"}

\* unicode.ToUpper on one character
ToUpperChar(c) ==
    IF \E i \in 1..26 : LowerLetters[i] = c
    THEN UpperLetters[CHOOSE i \in 1..26 : LowerLetters[i] = c]
    ELSE c

\* strings.ToUpper
ToUpper(s) == [i \in 1..Len(s) |-> ToUpperChar(s[i])]

\* strings.HasPrefix
HasPrefix(s, prefix) ==
    /\ Len(s) >= Len(prefix)
    /\ SubSeq(s, 1, Len(prefix)) = prefix

\* strings.TrimPrefix
TrimPrefix(s, prefix) ==
    IF HasPrefix(s, prefix) THEN SubSeq(s, Len(prefix) + 1, Len(s)) ELSE s

\* strings.Contains
Contains(s, substr) ==
    \E i \in 1..(Len(s) - Len(substr) + 1) :
        SubSeq(s, i, i + Len(substr) - 1) = substr

\* number of leading characters of s that satisfy the class test
RECURSIVE LeadingIn(_, _)
LeadingIn(s, cls) ==
    IF s = <<>> \/ Head(s) \notin cls THEN 0 ELSE 1 + LeadingIn(Tail(s), cls)

RECURSIVE TrailingIn(_, _)
TrailingIn(s, cls) ==
    IF s = <<>> \/ s[Len(s)] \notin cls THEN 0
    ELSE 1 + TrailingIn(SubSeq(s, 1, Len(s) - 1), cls)

\* strings.Trim(s, cutset): every leading and every trailing character that
\* is in the cutset is removed
Trim(s, cutset) ==
    LET l == LeadingIn(s, cutset)
        rest == SubSeq(s, l + 1, Len(s))
        t == TrailingIn(rest, cutset)
    IN  SubSeq(rest, 1, Len(rest) - t)

\* unicode.IsSpace on the characters of the model
SpaceChars == {" ", "\t", "\r", "\n"}

\* strings.TrimSpace
TrimSpace(s) == Trim(s, SpaceChars)

\* strings.Repeat
RECURSIVE Repeat(_, _)
Repeat(s, count) == IF count = 0 THEN <<>> ELSE s \o Repeat(s, count - 1)

\* strings.Join
RECURSIVE Join(_, _)
Join(elems, sep) ==
    IF elems = <<>> THEN <<>>
    ELSE IF Len(elems) = 1 THEN elems[1]
    ELSE elems[1] \o sep \o Join(Tail(elems), sep)

\* strings.Split(s, "\n"): one more element than there are separators
RECURSIVE Split(_, _)
Split(s, sepChar) ==
    IF \A i \in 1..Len(s) : s[i] # sepChar THEN <<s>>
    ELSE LET k == CHOOSE i \in 1..Len(s) :
                      /\ s[i] = sepChar
                      /\ \A j \in 1..(i - 1) : s[j] # sepChar
         IN  <<SubSeq(s, 1, k - 1)>> \o Split(SubSeq(s, k + 1, Len(s)), sepChar)

\* bufio.ScanLines over a whole file: the lines without their terminator,
\* one trailing "\r" dropped, no token for the empty rest after a final "\n"
DropCR(s) ==
    IF s # <<>> /\ s[Len(s)] = "\r" THEN SubSeq(s, 1, Len(s) - 1) ELSE s

ScanLines(data) ==
    LET parts == Split(data, "\n")
        toks == IF parts[Len(parts)] = <<>>
                THEN SubSeq(parts, 1, Len(parts) - 1)
                ELSE parts
    IN  [i \in 1..Len(toks) |-> DropCR(toks[i])]

\* ------------------------------------------------------------------------
\* getFieldType
\* ------------------------------------------------------------------------
passwordKeywords ==
    << <<"P","A","S","S","W","O","R","D">>,
       <<"P","A","S","S">>,
       <<"S","E","C","R","E","T">>,
       <<"K","E","Y">>,
       <<"T","O","K","E","N">>,
       <<"A","U","T","H">>,
       <<"C","R","E","D","E","N","T","I","A","L">>,
       <<"H","A","S","H">>,
       <<"S","A","L","T">> >>

\* the loop over passwordKeywords, returning at the first keyword found
RECURSIVE keywordLoop(_, _)
keywordLoop(upperName, k) ==
    IF k > Len(passwordKeywords) THEN "STRING"
    ELSE IF Contains(upperName, passwordKeywords[k]) THEN "CONCEALED"
    ELSE keywordLoop(upperName, k + 1)

getFieldTypeNoUpper(fieldName) == keywordLoop(fieldName, 1)

getFieldType(fieldName) == keywordLoop(ToUpper(fieldName), 1)

\* ------------------------------------------------------------------------
\* Records: OnePasswordField and its Section map
\* ------------------------------------------------------------------------
NotesID == <<"n","o","t","e","s","P","l","a","i","n">>

\* field.Section: a nil map, or a map that may hold a string under "label"
NilSection == [isNil |-> TRUE, hasLabel |-> FALSE, label |-> <<>>]
LabelSection(l) == [isNil |-> FALSE, hasLabel |-> TRUE, label |-> l]
UnlabelledSection == [isNil |-> FALSE, hasLabel |-> FALSE, label |-> <<>>]

Field(id, type, label, value, section) ==
    [ID |-> id, Type |-> type, Label |-> label, Value |-> value,
     Section |-> section]

\* ------------------------------------------------------------------------
\* ParseEnvFileToItem: the regular expressions
\* ------------------------------------------------------------------------
\* \s of Go's regexp: [\t\n\f\r ]
ReSpace == {" ", "\t", "\r", "\n"}

\* headerStartPattern ^#\s*-+\s*$
headerStartPattern(line) ==
    /\ line # <<>>
    /\ Head(line) = "#"
    /\ LET r1 == Tail(line)
           r2 == SubSeq(r1, LeadingIn(r1, ReSpace) + 1, Len(r1))
           d  == LeadingIn(r2, {"-"})
           r3 == SubSeq(r2, d + 1, Len(r2))
       IN  /\ d >= 1
           /\ LeadingIn(r3, ReSpace) = Len(r3)

\* sectionPattern ^#\s*(.+)\s*$ : "." is any character but "\n"
sectionPatternMatches(line) ==
    /\ Len(line) >= 2
    /\ Head(line) = "#"
    /\ \A i \in 1..Len(line) : line[i] # "\n"

\* matches[1]: \s* is greedy but leaves one character for (.+), which then
\* runs to the end of the line
sectionPatternGroup(line) ==
    LET r1 == Tail(line)
        l  == LeadingIn(r1, ReSpace)
    IN  IF l < Len(r1) THEN SubSeq(r1, l + 1, Len(r1))
        ELSE SubSeq(r1, Len(r1), Len(r1))

IsKeyStart(c) == IsUpper(c) \/ c = "_"
IsKeyChar(c) == IsUpper(c) \/ IsDigit(c) \/ c = "_"

\* length of the longest prefix of s made of [A-Z0-9_]
RECURSIVE KeyRun(_)
KeyRun(s) ==
    IF s = <<>> \/ ~IsKeyChar(Head(s)) THEN 0 ELSE 1 + KeyRun(Tail(s))

\* varPattern ^([A-Z_][A-Z0-9_]*)=(.*)$
varPatternMatches(line) ==
    /\ line # <<>>
    /\ IsKeyStart(Head(line))
    /\ KeyRun(line) < Len(line)
    /\ line[KeyRun(line) + 1] = "="
    /\ \A i \in 1..Len(line) : line[i] # "\n"

varPatternKey(line) == SubSeq(line, 1, KeyRun(line))
varPatternValue(line) == SubSeq(line, KeyRun(line) + 2, Len(line))

QuoteChars == {"'", "\""}


\* value := strings.Trim(matches[2], `'"`)
stripQuotesOneSide(value) ==
    SubSeq(value, LeadingIn(value, QuoteChars) + 1, Len(value))

stripQuotes(value) == Trim(value, QuoteChars)

\* ------------------------------------------------------------------------
\* ParseEnvFileToItem: the scan loop
\* ------------------------------------------------------------------------
\* the locals of ParseEnvFileToItem: currentSection, inHeader, headerLines
\* and item.Fields
ParserStart ==
    [currentSection |-> <<>>, inHeader |-> FALSE, headerLines |-> <<>>,
     Fields |-> <<>>]

\* a line that matches headerStartPattern flips inHeader
headerToggleStuck(p) == [p EXCEPT !.inHeader = TRUE]

headerToggle(p) ==
    IF ~p.inHeader THEN [p EXCEPT !.inHeader = TRUE]
    ELSE [p EXCEPT !.inHeader = FALSE]

\* inside the header a "#" line is collected, anything else is ignored
headerCollect(p, line) ==
    IF HasPrefix(line, <<"#">>)
    THEN [p EXCEPT !.headerLines =
              Append(@, TrimPrefix(TrimSpace(line), <<"#">>))]
    ELSE p

\* a matching variable line appends one field
varAppendNoSection(p, line) ==
    [p EXCEPT !.Fields =
         Append(@, Field(<<>>, getFieldType(varPatternKey(line)),
                         varPatternKey(line),
                         stripQuotes(varPatternValue(line)), NilSection))]

varAppend(p, line) ==
    LET key == varPatternKey(line)
        value == stripQuotes(varPatternValue(line))
        section == IF p.currentSection # <<>>
                   THEN LabelSection(p.currentSection)
                   ELSE NilSection
    IN  [p EXCEPT !.Fields =
             Append(@, Field(<<>>, getFieldType(key), key, value, section))]

\* outside the header: section marker, variable line, or nothing
outsideHeader(p, line) ==
    IF /\ HasPrefix(line, <<"#">>)
       /\ ~headerStartPattern(line)
       /\ sectionPatternMatches(line)
    THEN [p EXCEPT !.currentSection = TrimSpace(sectionPatternGroup(line))]
    ELSE IF varPatternMatches(line) THEN varAppend(p, line)
    ELSE p

insideHeaderAsOutside(p, line) == outsideHeader(p, line)

insideHeader(p, line) == headerCollect(p, line)

\* one pass through the body of the for scanner.Scan() loop
scanBody(p, text) ==
    LET line == TrimSpace(text)
    IN  IF line = <<>> THEN p
        ELSE IF headerStartPattern(line) THEN headerToggle(p)
        ELSE IF p.inHeader THEN insideHeader(p, line)
        ELSE outsideHeader(p, line)

\* after the loop: the notes field is appended when header lines were
\* collected
parseFinishAlways(p) ==
    Append(p.Fields,
           Field(NotesID, "STRING", NotesID,
                 Join(p.headerLines, <<"\n">>), NilSection))

parseFinish(p) ==
    IF Len(p.headerLines) > 0
    THEN Append(p.Fields,
                Field(NotesID, "STRING", NotesID,
                      Join(p.headerLines, <<"\n">>), NilSection))
    ELSE p.Fields

\* the scan loop over a file whose lines all fit the scanner's buffer
RECURSIVE scanAll(_, _)
scanAll(p, lines) ==
    IF lines = <<>> THEN p ELSE scanAll(scanBody(p, Head(lines)), Tail(lines))

\* ParseEnvFileToItem on a file that opens and reads without error and has
\* no over-long line: the returned item.Fields
ParseEnvText(data) == parseFinish(scanAll(ParserStart, ScanLines(data)))


\* ------------------------------------------------------------------------
\* WriteItemToEnvFile
\* ------------------------------------------------------------------------
\* notes = Value of the last field whose ID is notesPlain, "" when none
RECURSIVE notesOf(_, _)
notesOf(itemFields, notes) ==
    IF itemFields = <<>> THEN notes
    ELSE IF Head(itemFields).ID = NotesID
         THEN notesOf(Tail(itemFields), Head(itemFields).Value)
         ELSE notesOf(Tail(itemFields), notes)

\* the fields the first loop puts into the sections map
keepFieldAlways(field) == field.ID # NotesID

keepField(field) == field.ID # NotesID /\ field.Value # <<>>

\* the key of the sections map a field is filed under
sectionNameOf(field) ==
    IF ~field.Section.isNil /\ field.Section.hasLabel
    THEN field.Section.label
    ELSE <<>>

\* sections[name]: the kept fields of that key, in field order
bucket(itemFields, name) ==
    SelectSeq(itemFields, LAMBDA f : keepField(f) /\ sectionNameOf(f) = name)

\* the keys of the sections map other than ""
namedKeys(itemFields) ==
    {sectionNameOf(itemFields[i]) :
        i \in {j \in 1..Len(itemFields) : keepField(itemFields[j])}} \ {<<>>}

\* the named keys in the order of their first field
RECURSIVE firstSeen(_, _)
firstSeen(itemFields, seen) ==
    IF itemFields = <<>> THEN seen
    ELSE LET f == Head(itemFields)
             n == sectionNameOf(f)
         IN  IF keepField(f) /\ n # <<>> /\ \A i \in 1..Len(seen) : seen[i] # n
             THEN firstSeen(Tail(itemFields), Append(seen, n))
             ELSE firstSeen(Tail(itemFields), seen)

\* every order in which a set of keys can be enumerated
enumerations(keys) ==
    {o \in [1..Cardinality(keys) -> keys] :
        \A i, j \in 1..Cardinality(keys) : o[i] = o[j] => i = j}

\* the one order an order-preserving container would give
rangeOrdersFirstSeen(itemFields) == {firstSeen(itemFields, <<>>)}

\* "for sectionName, fields := range sections": Go leaves the iteration
\* order of a map unspecified, every order of the keys can occur
rangeOrders(itemFields) == enumerations(namedKeys(itemFields))

\* fmt.Sprintf("%s='%s'\n", field.Label, field.Value)
fieldLineBare(field) == field.Label \o <<"=">> \o field.Value \o <<"\n">>

fieldLine(field) ==
    field.Label \o <<"=", "'">> \o field.Value \o <<"'", "\n">>

RECURSIVE fieldLines(_)
fieldLines(fs) ==
    IF fs = <<>> THEN <<>> ELSE fieldLine(Head(fs)) \o fieldLines(Tail(fs))

delimiterLine == <<"#", " ">> \o Repeat(<<"-">>, HeaderDashes) \o <<"\n">>

RECURSIVE noteLines(_)
noteLines(ls) ==
    IF ls = <<>> THEN <<>>
    ELSE (IF TrimSpace(Head(ls)) # <<>>
          THEN <<"#", " ">> \o Head(ls) \o <<"\n">>
          ELSE <<>>) \o noteLines(Tail(ls))

\* the header block
headerBlock(notes) ==
    IF notes # <<>>
    THEN delimiterLine \o noteLines(Split(notes, "\n")) \o delimiterLine
         \o <<"\n">>
    ELSE <<>>

\* the ungrouped variables
ungroupedBlock(itemFields) ==
    LET fs == bucket(itemFields, <<>>)
    IN  IF Len(fs) > 0 THEN fieldLines(fs) \o <<"\n">> ELSE <<>>

\* one named section
sectionBlock(itemFields, name) ==
    LET fs == bucket(itemFields, name)
    IN  IF Len(fs) > 0
        THEN <<"#", " ">> \o name \o <<"\n">> \o fieldLines(fs) \o <<"\n">>
        ELSE <<>>

RECURSIVE sectionBlocks(_, _)
sectionBlocks(itemFields, order) ==
    IF order = <<>> THEN <<>>
    ELSE sectionBlock(itemFields, Head(order))
         \o sectionBlocks(itemFields, Tail(order))

\* the bytes written when the map is enumerated in the given order
writeItemSectionsFirst(itemFields, order) ==
    headerBlock(notesOf(itemFields, <<>>))
    \o sectionBlocks(itemFields, order)
    \o ungroupedBlock(itemFields)

writeItem(itemFields, order) ==
    headerBlock(notesOf(itemFields, <<>>))
    \o ungroupedBlock(itemFields)
    \o sectionBlocks(itemFields, order)

\* every file content WriteItemToEnvFile can leave behind
writeOutputs(itemFields) ==
    {writeItem(itemFields, o) : o \in rangeOrders(itemFields)}


\* ------------------------------------------------------------------------
\* Inputs
\* ------------------------------------------------------------------------
\* what stands right of the "=" in the user's file
RawValues ==
    { <<>>,
      <<"v">>,
      <<"'","v","'">>,
      <<"\"","v","\"">>,
      <<"'","v">>,
      <<"'","v","\"">>,
      <<"'","'","v","'","'">> }

VarLines ==
    {<<"A", "=">> \o r : r \in RawValues}
    \cup { <<"K","E","Y","=","v">>, <<" ","A","=","v"," ">> }

DelimiterLines == { <<"#","-">>, <<"#"," ","-","-"," ">> }

CommentLines ==
    { <<"#">>, <<"#"," ","S">>, <<"#","T">>, <<"#"," "," ","S">> }

BlankLines == { <<>> }

\* lines that are neither blank, nor "#" lines, nor variable lines
UnrecognizedLines ==
    { <<"a","=","v">>,
      <<"1","A","=","v">>,
      <<"e","x","p","o","r","t"," ","X","=","1">> }

InputLines ==
    VarLines \cup DelimiterLines \cup CommentLines \cup BlankLines
    \cup UnrecognizedLines

\* the constructs of the format: blank line, header delimiter, "#" comment
\* (note line or section marker) and KEY=VALUE line
RecognizedLine(ln) ==
    LET line == TrimSpace(ln)
    IN  \/ line = <<>>
        \/ headerStartPattern(line)
        \/ (HasPrefix(line, <<"#">>) /\ sectionPatternMatches(line))
        \/ varPatternMatches(line)

\* the bytes of a line beyond the ones the model spells out
LinePads == {0, MaxScanTokenSize}

\* the fields an item of the store can hold
StoreSections ==
    { NilSection, UnlabelledSection,
      LabelSection(<<"S">>), LabelSection(<<"T">>) }

StoreFields ==
    {Field(<<"i","d">>, "STRING", <<"A">>, v, sec) :
        v \in {<<>>, <<"v">>, <<"'","v">>}, sec \in StoreSections}
    \cup
    {Field(<<"i","d">>, "CONCEALED", <<"K","E","Y">>, <<"v">>, sec) :
        sec \in {NilSection, LabelSection(<<"S">>)}}
    \cup
    {Field(NotesID, "STRING", NotesID, v, NilSection) :
        v \in {<<>>, <<"n">>, <<"n","\n"," ","\n","m">>}}

RECURSIVE SeqsUpTo(_, _)
SeqsUpTo(S, n) ==
    IF n = 0 THEN {<<>>}
    ELSE LET shorter == SeqsUpTo(S, n - 1)
         IN  shorter \cup {Append(q, x) : q \in shorter, x \in S}

StoreItems == SeqsUpTo(StoreFields, MaxStoreFields)

NameChars == {"K", "E", "Y", "k", "e", "y", "_"}

\* the names of the repository's own tests of getFieldType
TestNames ==
    { <<"D","A","T","A","B","A","S","E","_","U","R","L">>,
      <<"A","P","I","_","K","E","Y">>,
      <<"P","A","S","S","W","O","R","D">>,
      <<"S","M","T","P","_","P","A","S","S">>,
      <<"J","W","T","_","S","E","C","R","E","T">>,
      <<"A","C","C","E","S","S","_","T","O","K","E","N">>,
      <<"O","A","U","T","H","_","A","U","T","H">>,
      <<"D","B","_","C","R","E","D","E","N","T","I","A","L">>,
      <<"P","A","S","S","W","O","R","D","_","H","A","S","H">>,
      <<"B","C","R","Y","P","T","_","S","A","L","T">>,
      <<"R","E","D","I","S","_","H","O","S","T">>,
      <<"P","O","R","T">>,
      <<"D","E","B","U","G">>,
      <<"s","m","t","p","_","p","a","s","s">>,
      <<"S","a","l","t">>,
      <<"h","a","s">> }

FieldNames == SeqsUpTo(NameChars, MaxNameLen) \cup TestNames

\* ------------------------------------------------------------------------
\* State
\* ------------------------------------------------------------------------
VARIABLES
    pc,             \* where the run stands
    text,           \* scanner.Text() of the line scanned last
    lineNo,         \* number of lines the scanner has delivered
    delims,         \* number of those that matched headerStartPattern
    currentSection, \* locals of ParseEnvFileToItem
    inHeader,
    headerLines,
    fields,         \* item.Fields while the file is scanned
    scanErr,        \* scanner.Err() / the error of os.Open
    recognized,     \* every line scanned so far is a recognized construct
    origin,         \* where item came from: "file" or "store"
    item,           \* Fields of the item in memory (parsed or fetched)
    out,            \* the file WriteItemToEnvFile wrote from item
    outPrev,        \* the file an earlier run wrote from the same item
    writes,         \* number of runs of WriteItemToEnvFile on item
    item2,          \* Fields parsed from the written file
    out2,           \* the file written from item2
    fieldName,      \* argument and result of a call of getFieldType
    fieldType,
    cmd,            \* the command that runs: "push" or "pull"
    at,             \* where Push or Pull stands
    force,          \* --force was given on the command line
    argVault,       \* --vault and --item of the command line, "" if absent
    argItem,
    targetVault,    \* locals of Push and Pull
    targetItem,
    vaultID,
    parsedItem,     \* Fields of the item Push parsed
    opItem,         \* the item Pull fetched
    vaults,         \* the store: its vault list
    remote,         \* the store: its items, as <<vault ID, title>>
    config,         \* a.config.Projects[workingDir]
    configFile,     \* the same entry of config.json on disk
    envFile,        \* the .env file of the command
    calls,          \* prompts shown and store calls made, in order
    ret             \* what Push or Pull returned

vars == <<pc, text, lineNo, delims, currentSection, inHeader, headerLines,
          fields, scanErr, recognized, origin, item, out, outPrev, writes, item2, out2,
          fieldName, fieldType,
          cmd, at, force, argVault, argItem, targetVault, targetItem, vaultID,
          parsedItem, opItem, vaults, remote, config, configFile, envFile,
          calls, ret>>

parserVars == <<text, lineNo, delims, currentSection, inHeader, headerLines,
                fields, scanErr, recognized>>
writerVars == <<out, outPrev, writes, item2, out2>>
typeVars == <<fieldName, fieldType>>
appVars == <<cmd, at, force, argVault, argItem, targetVault, targetItem,
             vaultID, parsedItem, opItem, vaults, remote, config, configFile,
             envFile, calls, ret>>
fileVars == <<pc, parserVars, origin, item, writerVars, typeVars>>

\* no command runs
NoCommand ==
    /\ cmd = "none"
    /\ at = "idle"
    /\ force = FALSE
    /\ argVault = ""
    /\ argItem = ""
    /\ targetVault = ""
    /\ targetItem = ""
    /\ vaultID = ""
    /\ parsedItem = <<>>
    /\ opItem = <<>>
    /\ vaults = <<>>
    /\ remote = {}
    /\ config = [Vault |-> "", Item |-> ""]
    /\ configFile = [Vault |-> "", Item |-> ""]
    /\ envFile = [exists |-> FALSE, data |-> <<>>]
    /\ calls = <<>>
    /\ ret = "none"

\* no file is parsed or written
NoFileWork ==
    /\ pc = "idle"
    /\ text = <<>>
    /\ lineNo = 0
    /\ delims = 0
    /\ currentSection = <<>>
    /\ inHeader = FALSE
    /\ headerLines = <<>>
    /\ fields = <<>>
    /\ scanErr = "nil"
    /\ recognized = TRUE
    /\ origin = "none"
    /\ item = <<>>
    /\ out = <<>>
    /\ outPrev = <<>>
    /\ writes = 0
    /\ item2 = <<>>
    /\ out2 = <<>>
    /\ fieldName = <<>>
    /\ fieldType = "none"

Init == NoFileWork /\ NoCommand

\* the parser's locals as one record
locals ==
    [currentSection |-> currentSection, inHeader |-> inHeader,
     headerLines |-> headerLines, Fields |-> fields]

\* ------------------------------------------------------------------------
\* Actions
\* ------------------------------------------------------------------------
\* ParseEnvFileToItem: os.Open succeeds, the locals are set up
OpenFile ==
    /\ pc = "idle"
    /\ pc' = "scan"
    /\ currentSection' = ParserStart.currentSection
    /\ inHeader' = ParserStart.inHeader
    /\ headerLines' = ParserStart.headerLines
    /\ fields' = ParserStart.Fields
    /\ origin' = "file"
    /\ UNCHANGED <<text, lineNo, delims, scanErr, recognized, item>>
    /\ UNCHANGED writerVars
    /\ UNCHANGED typeVars
    /\ UNCHANGED appVars

\* ParseEnvFileToItem: os.Open fails, the error is returned
OpenFails ==
    /\ pc = "idle"
    /\ pc' = "parseFailed"
    /\ scanErr' = "open"
    /\ UNCHANGED <<text, lineNo, delims, currentSection, inHeader,
                   headerLines, fields, recognized, origin, item>>
    /\ UNCHANGED writerVars
    /\ UNCHANGED typeVars
    /\ UNCHANGED appVars

\* scanner.Scan() finds a line that fits the buffer; the loop body runs
ScanLine ==
    /\ pc = "scan"
    /\ lineNo < MaxLines
    /\ \E ln \in InputLines :
          LET q == scanBody(locals, ln)
          IN  /\ Len(ln) < MaxScanTokenSize
              /\ text' = ln
              /\ lineNo' = lineNo + 1
              /\ delims' = IF headerStartPattern(TrimSpace(ln))
                           THEN delims + 1 ELSE delims
              /\ currentSection' = q.currentSection
              /\ inHeader' = q.inHeader
              /\ headerLines' = q.headerLines
              /\ fields' = q.Fields
              /\ recognized' = (recognized /\ RecognizedLine(ln))
    /\ UNCHANGED <<pc, scanErr, origin, item>>
    /\ UNCHANGED writerVars
    /\ UNCHANGED typeVars
    /\ UNCHANGED appVars

\* scanner.Scan() meets a line of MaxScanTokenSize bytes or more: it
\* returns false with ErrTooLong, and ParseEnvFileToItem returns the error
ScanTooLong ==
    /\ pc = "scan"
    /\ lineNo < MaxLines
    /\ \E ln \in InputLines, pad \in LinePads :
          /\ Len(ln) + pad >= MaxScanTokenSize
          /\ text' = ln
    /\ scanErr' = "ErrTooLong"
    /\ pc' = "parseFailed"
    /\ UNCHANGED <<lineNo, delims, currentSection, inHeader, headerLines,
                   fields, recognized, origin, item>>
    /\ UNCHANGED writerVars
    /\ UNCHANGED typeVars
    /\ UNCHANGED appVars

\* the read fails: scanner.Scan() returns false, scanner.Err() is the error
ScanReadFails ==
    /\ pc = "scan"
    /\ scanErr' = "read"
    /\ pc' = "parseFailed"
    /\ UNCHANGED <<text, lineNo, delims, currentSection, inHeader,
                   headerLines, fields, recognized, origin, item>>
    /\ UNCHANGED writerVars
    /\ UNCHANGED typeVars
    /\ UNCHANGED appVars

\* end of file: scanner.Err() is nil, the notes field is added and the
\* item returned
ScanEOF ==
    /\ pc = "scan"
    /\ pc' = "parsed"
    /\ item' = parseFinish(locals)
    /\ UNCHANGED origin
    /\ UNCHANGED parserVars
    /\ UNCHANGED writerVars
    /\ UNCHANGED typeVars
    /\ UNCHANGED appVars

\* GetItemByName: an item arrives from the store
GetItem ==
    /\ pc = "idle"
    /\ pc' = "loaded"
    /\ item' \in StoreItems
    /\ origin' = "store"
    /\ UNCHANGED parserVars
    /\ UNCHANGED writerVars
    /\ UNCHANGED typeVars
    /\ UNCHANGED appVars

\* WriteItemToEnvFile on the item in memory; a second run overwrites the
\* file of the first
WriteItemToEnvFile ==
    /\ pc \in {"parsed", "loaded", "written"}
    /\ writes < 2
    /\ pc' = "written"
    /\ out' \in writeOutputs(item)
    /\ outPrev' = out
    /\ writes' = writes + 1
    /\ UNCHANGED <<origin, item, item2, out2>>
    /\ UNCHANGED parserVars
    /\ UNCHANGED typeVars
    /\ UNCHANGED appVars

\* ParseEnvFileToItem on the file that was written
ParseWritten ==
    /\ pc = "written"
    /\ pc' = "reparsed"
    /\ item2' = ParseEnvText(out)
    /\ UNCHANGED <<origin, item, out, outPrev, writes, out2>>
    /\ UNCHANGED parserVars
    /\ UNCHANGED typeVars
    /\ UNCHANGED appVars

\* WriteItemToEnvFile on the item parsed from the written file
WriteParsed ==
    /\ pc = "reparsed"
    /\ pc' = "rewritten"
    /\ out2' \in writeOutputs(item2)
    /\ UNCHANGED <<origin, item, out, outPrev, writes, item2>>
    /\ UNCHANGED parserVars
    /\ UNCHANGED typeVars
    /\ UNCHANGED appVars

\* a call of getFieldType
CallGetFieldType ==
    /\ pc = "idle"
    /\ pc' = "typed"
    /\ fieldName' \in FieldNames
    /\ fieldType' = getFieldType(fieldName')
    /\ UNCHANGED parserVars
    /\ UNCHANGED <<origin, item>>
    /\ UNCHANGED writerVars
    /\ UNCHANGED appVars

Next ==
    \/ OpenFile
    \/ OpenFails
    \/ ScanLine
    \/ ScanTooLong
    \/ ScanReadFails
    \/ ScanEOF
    \/ GetItem
    \/ WriteItemToEnvFile
    \/ ParseWritten
    \/ WriteParsed
    \/ CallGetFieldType

Spec == Init /\ [][Next]_vars


\* ------------------------------------------------------------------------
\* Push and Pull: the store, the preferences, the command line
\* ------------------------------------------------------------------------
\* resolveTarget's defaults: the vault name, and filepath.Base(workingDir)
DefaultVault == "Environments"
BaseOfWorkingDir == "proj"

VaultInfo(id, name) == [ID |-> id, Name |-> name]

\* the vault lists the store can hold
VaultLists ==
    { <<>>,
      <<VaultInfo("v1", "Environments")>>,
      <<VaultInfo("v1", "Environments"), VaultInfo("v2", "Dev")>>,
      <<VaultInfo("v1", "Dev"), VaultInfo("v2", "Dev")>> }

\* the items the store can hold, as <<vault ID, title>>
Remotes ==
    { {},
      {<<"v1", "proj">>},
      {<<"v1", "api">>, <<"v2", "api">>},
      {<<"v1", "proj">>, <<"v2", "proj">>, <<"v2", "api">>} }

\* the order in which the store lists items
ItemOrder == <<"api", "proj">>

\* what the command line gives for --vault and --item
ArgVaults == {"", "Dev", "Gone"}
ArgItems == {"", "api"}

\* what the user types when asked for the name of a new vault
NewVaultNames == {"", "Dev", "New"}
NewVaultID == "v9"

\* the saved preferences of the working directory; "" stands for not saved
ProjectConfig(vault, itemName) == [Vault |-> vault, Item |-> itemName]
ProjectConfigs == {ProjectConfig("", ""), ProjectConfig("Dev", "api")}

\* the .env files a command finds
EnvTexts ==
    { <<"A", "=", "v">>,
      Join(<< <<"#", "-">>, <<"#", "n">>, <<"#", "-">>,
              <<"#", " ", "S">>, <<"K", "E", "Y", "=", "v">> >>, <<"\n">>) }

EnvFile(exists, data) == [exists |-> exists, data |-> data]
EnvFiles == {EnvFile(FALSE, <<>>)} \cup {EnvFile(TRUE, t) : t \in EnvTexts}

\* the items Pull can be handed by the store
PulledItems ==
    { <<Field(<<"i","d">>, "STRING", <<"A">>, <<"v">>, NilSection)>>,
      <<Field(<<"i","d">>, "CONCEALED", <<"K","E","Y">>, <<"v">>,
              LabelSection(<<"S">>)),
        Field(NotesID, "STRING", NotesID, <<"n">>, NilSection)>> }

\* Config.GetVault and Config.GetItem
GetVault(project, defaultVault) ==
    IF project.Vault # "" THEN project.Vault ELSE defaultVault

GetItemName(project, defaultItem) ==
    IF project.Item # "" THEN project.Item ELSE defaultItem

\* resolveTarget
resolveTargetSavedFirst(vault, itemName, project) ==
    [targetVault |-> IF project.Vault # "" THEN project.Vault
                     ELSE IF vault = "" THEN DefaultVault ELSE vault,
     targetItem |-> IF project.Item # "" THEN project.Item
                    ELSE IF itemName = "" THEN BaseOfWorkingDir ELSE itemName]

resolveTarget(vault, itemName, project) ==
    [targetVault |-> IF vault = "" THEN GetVault(project, DefaultVault)
                     ELSE vault,
     targetItem |-> IF itemName = ""
                    THEN GetItemName(project, BaseOfWorkingDir)
                    ELSE itemName]

\* GetVaultIdentifier on a vault list that ListVaults delivered
GetVaultIdentifierLast(vs, vaultName) ==
    LET matchingVaults == SelectSeq(vs, LAMBDA v : v.Name = vaultName)
    IN  IF Len(matchingVaults) = 0 THEN [err |-> TRUE, id |-> ""]
        ELSE IF Len(matchingVaults) = 1 THEN [err |-> FALSE, id |-> vaultName]
        ELSE [err |-> FALSE, id |-> matchingVaults[Len(matchingVaults)].ID]

GetVaultIdentifier(vs, vaultName) ==
    LET matchingVaults == SelectSeq(vs, LAMBDA v : v.Name = vaultName)
    IN  IF Len(matchingVaults) = 0 THEN [err |-> TRUE, id |-> ""]
        ELSE IF Len(matchingVaults) = 1 THEN [err |-> FALSE, id |-> vaultName]
        ELSE [err |-> FALSE, id |-> matchingVaults[1].ID]

\* the vaults the store takes the --vault argument v for: by ID or by name
Denoted(vs, v) == {i \in 1..Len(vs) : vs[i].ID = v \/ vs[i].Name = v}

\* "op item get itemName --vault v" finds an item
HasItem(vs, rem, v, itemName) ==
    /\ Cardinality(Denoted(vs, v)) = 1
    /\ \E i \in Denoted(vs, v) : <<vs[i].ID, itemName>> \in rem

\* the store's ID of that item
ItemIDOf(vs, v, itemName) ==
    <<vs[CHOOSE i \in Denoted(vs, v) : TRUE].ID, itemName>>

\* "op item list --vault v": the titles, when v denotes one vault
ListedItems(vs, rem, v) ==
    SelectSeq(ItemOrder, LAMBDA t : HasItem(vs, rem, v, t))

\* an entry of the log of prompts and store calls
Call(name, args, result) == [call |-> name, args |-> args, result |-> result]

\* the log entries of one name
CallsOf(name) == SelectSeq(calls, LAMBDA c : c.call = name)

\* ------------------------------------------------------------------------
\* Push and Pull: the steps
\* ------------------------------------------------------------------------
\* what a run starts from: a store, saved preferences, a .env file or none
SyncInit ==
    /\ NoFileWork
    /\ cmd = "none"
    /\ at = "idle"
    /\ force = FALSE
    /\ argVault = ""
    /\ argItem = ""
    /\ targetVault = ""
    /\ targetItem = ""
    /\ vaultID = ""
    /\ parsedItem = <<>>
    /\ opItem = <<>>
    /\ vaults \in VaultLists
    /\ remote \in {r \in Remotes :
                      \A x \in r : \E i \in 1..Len(vaults) : vaults[i].ID = x[1]}
    /\ configFile \in ProjectConfigs
    /\ config = configFile
    /\ envFile \in EnvFiles
    /\ calls = <<>>
    /\ ret = "none"

\* Push or Pull returns; result is "nil" or "err"
Return(result) ==
    /\ ret' = result
    /\ at' = "done"

\* the first step of Push and Pull: the dependencies are validated (the
\* process exits when one is missing) and resolveTarget runs
Begin ==
    /\ at = "idle"
    /\ force' \in BOOLEAN
    /\ argVault' \in ArgVaults
    /\ argItem' \in ArgItems
    /\ \E deps \in {"ok", "noCli", "notSignedIn"}, getwd \in {"ok", "err"} :
          IF deps # "ok"
          THEN /\ ret' = "exit1"
               /\ at' = "done"
               /\ UNCHANGED <<targetVault, targetItem>>
          ELSE IF getwd = "err"
          THEN /\ Return("err")
               /\ UNCHANGED <<targetVault, targetItem>>
          ELSE LET t == resolveTarget(argVault', argItem', config)
               IN  /\ targetVault' = t.targetVault
                   /\ targetItem' = t.targetItem
                   /\ at' = "vault"
                   /\ UNCHANGED ret
    /\ UNCHANGED <<vaultID, parsedItem, opItem, vaults, remote, config,
                   configFile, envFile, calls>>
    /\ UNCHANGED fileVars

\* main: the push command; its --force flag is passed to Push
PushBegin ==
    /\ cmd' = "push"
    /\ Begin

\* main: the pull command; it declares --force, Pull has no such parameter
PullBegin ==
    /\ cmd' = "pull"
    /\ Begin

\* where Push and Pull go on once the vault is resolved
AfterVault == IF cmd = "push" THEN "parse" ELSE "item"

\* vaultID, err := GetVaultIdentifier(targetVault); any error leads to
\* HandleVaultNotFound
ResolveVault ==
    /\ at = "vault"
    /\ \E listOk \in BOOLEAN :
          LET r == IF listOk THEN GetVaultIdentifier(vaults, targetVault)
                   ELSE [err |-> TRUE, id |-> ""]
          IN  /\ calls' = Append(calls,
                      Call("GetVaultIdentifier", <<targetVault>>,
                           IF ~listOk THEN "listFailed"
                           ELSE IF r.err THEN "notFound" ELSE "ok"))
              /\ vaultID' = r.id
              /\ at' = IF r.err THEN "vaultNotFound" ELSE AfterVault
    /\ UNCHANGED <<cmd, force, argVault, argItem, targetVault, targetItem,
                   parsedItem, opItem, vaults, remote, config, configFile,
                   envFile, ret>>
    /\ UNCHANGED fileVars

\* what a resolver hands back: the name selected ("" when the user
\* cancelled), or an error; vaults is the vault list it leaves behind,
\* picked the ID of the list entry the user picked, "" without a pick
Resolved(err, sel, vs, how) ==
    [err |-> err, sel |-> sel, vaults |-> vs, how |-> how, picked |-> ""]

\* selectExistingVault: the name of the entry the user picks
selectExistingVault(vs) ==
    IF Len(vs) = 0 THEN {Resolved(FALSE, "", vs, "noVaults")}
    ELSE {IF vaultChoice < 1 \/ vaultChoice > Len(vs)
          THEN Resolved(TRUE, "", vs, "invalidChoice")
          ELSE [Resolved(FALSE, vs[vaultChoice].Name, vs, "selected")
                    EXCEPT !.picked = vs[vaultChoice].ID]
          : vaultChoice \in 0..(Len(vs) + 1)}

\* createNewVault: the name typed, "Environments" for none; the vault is
\* used when ValidateVault finds it and created otherwise
createNewVault(vs) ==
    UNION {
      LET newVaultName == IF typed = "" THEN DefaultVault ELSE typed
      IN  (IF Cardinality(Denoted(vs, newVaultName)) = 1
           THEN {Resolved(FALSE, newVaultName, vs, "exists")}
           ELSE {})
          \cup
          {IF createOk
           THEN Resolved(FALSE, newVaultName,
                         Append(vs, VaultInfo(NewVaultID, newVaultName)),
                         "created")
           ELSE Resolved(TRUE, "", vs, "createFailed")
           : createOk \in BOOLEAN}
      : typed \in NewVaultNames}

\* HandleVaultNotFound once ListVaults has delivered the list: the choices
\* 1, 2, 3 and anything else
vaultChoices(vs) ==
    selectExistingVault(vs)
    \cup createNewVault(vs)
    \cup {Resolved(FALSE, "", vs, "cancelled")}
    \cup {Resolved(TRUE, "", vs, "invalidChoice")}

\* selectedVault, err := HandleVaultNotFound(targetVault), and what Push
\* and Pull do with the result
HandleVaultNotFound ==
    /\ at = "vaultNotFound"
    /\ \E listOk \in BOOLEAN :
          \E o \in IF listOk THEN vaultChoices(vaults)
                   ELSE {Resolved(TRUE, "", vaults, "listFailed")} :
              /\ calls' = Append(calls,
                      Call("HandleVaultNotFound", <<targetVault>>, o.how))
                          \o (IF ~o.err /\ o.sel # ""
                              THEN <<Call("selectedVault", <<o.picked>>,
                                          o.sel)>>
                              ELSE <<>>)
              /\ vaults' = o.vaults
              /\ IF o.err THEN Return("err") /\ UNCHANGED targetVault
                 ELSE IF o.sel = "" THEN Return("nil") /\ UNCHANGED targetVault
                 ELSE /\ targetVault' = o.sel
                      /\ at' = "vaultAgain"
                      /\ UNCHANGED ret
    /\ UNCHANGED <<cmd, force, argVault, argItem, targetItem, vaultID,
                   parsedItem, opItem, remote, config, configFile, envFile>>
    /\ UNCHANGED fileVars

\* vaultID, err = GetVaultIdentifier(selectedVault)
ResolveSelectedVault ==
    /\ at = "vaultAgain"
    /\ \E listOk \in BOOLEAN :
          LET r == IF listOk THEN GetVaultIdentifier(vaults, targetVault)
                   ELSE [err |-> TRUE, id |-> ""]
          IN  /\ calls' = Append(calls,
                      Call("GetVaultIdentifier", <<targetVault>>,
                           IF ~listOk THEN "listFailed"
                           ELSE IF r.err THEN "notFound" ELSE "ok"))
              /\ vaultID' = r.id
              /\ IF r.err THEN Return("err")
                 ELSE at' = AfterVault /\ UNCHANGED ret
    /\ UNCHANGED <<cmd, force, argVault, argItem, targetVault, targetItem,
                   parsedItem, opItem, vaults, remote, config, configFile,
                   envFile>>
    /\ UNCHANGED fileVars

\* parsedItem, err := ParseEnvFileToItem(filePath, targetItem): a file that
\* is missing or cannot be opened or read ends Push with the error
PushParseGoesOn ==
    /\ at = "parse"
    /\ \E outcome \in IF envFile.exists THEN {"ok", "open", "read"}
                      ELSE {"open"} :
          /\ calls' = Append(calls,
                  Call("ParseEnvFileToItem", <<targetItem>>, outcome))
          /\ parsedItem' = IF outcome = "ok" THEN ParseEnvText(envFile.data)
                           ELSE <<>>
          /\ at' = "confirm"
          /\ UNCHANGED ret
    /\ UNCHANGED <<cmd, force, argVault, argItem, targetVault, targetItem,
                   vaultID, opItem, vaults, remote, config, configFile,
                   envFile>>
    /\ UNCHANGED fileVars

PushParse ==
    /\ at = "parse"
    /\ \E outcome \in IF envFile.exists THEN {"ok", "open", "read"}
                      ELSE {"open"} :
          /\ calls' = Append(calls,
                  Call("ParseEnvFileToItem", <<targetItem>>, outcome))
          /\ IF outcome = "ok"
             THEN /\ parsedItem' = ParseEnvText(envFile.data)
                  /\ at' = "confirm"
                  /\ UNCHANGED ret
             ELSE /\ Return("err")
                  /\ UNCHANGED parsedItem
    /\ UNCHANGED <<cmd, force, argVault, argItem, targetVault, targetItem,
                   vaultID, opItem, vaults, remote, config, configFile,
                   envFile>>
    /\ UNCHANGED fileVars

\* the first ItemExists of Push and the overwrite prompt: ItemExists is
\* true when "op item get" succeeds
PushConfirmStoresOnDecline ==
    /\ at = "confirm"
    /\ \E getOk \in BOOLEAN :
          LET exists == getOk /\ HasItem(vaults, remote, vaultID, targetItem)
              seen == Append(calls,
                         Call("ItemExists", <<vaultID, targetItem>>,
                              IF exists THEN "true" ELSE "false"))
          IN  IF exists /\ ~force
              THEN \E response \in {"y", "n"} :
                      /\ calls' = Append(seen,
                              Call("ConfirmOverwrite", <<"Item", targetItem>>,
                                   response))
                      /\ IF response = "y"
                         THEN /\ at' = "write"
                              /\ UNCHANGED <<ret, config, configFile>>
                         ELSE /\ Return("nil")
                              /\ config' = ProjectConfig(targetVault, targetItem)
                              /\ configFile' = config'
              ELSE /\ calls' = seen
                   /\ at' = "write"
                   /\ UNCHANGED <<ret, config, configFile>>
    /\ UNCHANGED <<cmd, force, argVault, argItem, targetVault, targetItem,
                   vaultID, parsedItem, opItem, vaults, remote, envFile>>
    /\ UNCHANGED fileVars

PushConfirm ==
    /\ at = "confirm"
    /\ \E getOk \in BOOLEAN :
          LET exists == getOk /\ HasItem(vaults, remote, vaultID, targetItem)
              seen == Append(calls,
                         Call("ItemExists", <<vaultID, targetItem>>,
                              IF exists THEN "true" ELSE "false"))
          IN  IF exists /\ ~force
              THEN \E response \in {"y", "n"} :
                      /\ calls' = Append(seen,
                              Call("ConfirmOverwrite", <<"Item", targetItem>>,
                                   response))
                      /\ IF response = "y" THEN at' = "write" /\ UNCHANGED ret
                         ELSE Return("nil")
              ELSE /\ calls' = seen
                   /\ at' = "write"
                   /\ UNCHANGED ret
    /\ UNCHANGED <<cmd, force, argVault, argItem, targetVault, targetItem,
                   vaultID, parsedItem, opItem, vaults, remote, config,
                   configFile, envFile>>
    /\ UNCHANGED fileVars

\* the loop of Push over parsedItem.Fields: notes is the value of the last
\* notesPlain field, fields are the other fields in order
RECURSIVE extractNotes(_, _, _)
extractNotes(itemFields, notes, others) ==
    IF itemFields = <<>> THEN [notes |-> notes, fields |-> others]
    ELSE IF Head(itemFields).ID = NotesID
         THEN extractNotes(Tail(itemFields), Head(itemFields).Value, others)
         ELSE extractNotes(Tail(itemFields), notes,
                           Append(others, Head(itemFields)))

\* the log entry of UpdateItemFields or CreateItemFromFields: args is the
\* item ID or the vault and title, split holds the notes and the fields
WriteCall(name, args, result, split) ==
    [call |-> name, args |-> args, result |-> result,
     notes |-> split.notes, fields |-> split.fields]

\* the notes and the other fields of the parsed item, the second
\* ItemExists, and UpdateItemFields on the item found or
\* CreateItemFromFields
PushWrite ==
    /\ at = "write"
    /\ cmd = "push"
    /\ \E existsOk \in BOOLEAN, getOk \in BOOLEAN, writeOk \in BOOLEAN :
          LET exists == existsOk
                        /\ HasItem(vaults, remote, vaultID, targetItem)
              seen == Append(calls,
                         Call("ItemExists", <<vaultID, targetItem>>,
                              IF exists THEN "true" ELSE "false"))
              done == IF writeOk THEN "ok" ELSE "failed"
          IN  IF exists
              THEN IF ~getOk
                   THEN /\ calls' = Append(seen,
                               Call("GetItemByName", <<vaultID, targetItem>>,
                                    "failed"))
                        /\ Return("err")
                        /\ UNCHANGED remote
                   ELSE /\ calls' = Append(seen,
                               WriteCall("UpdateItemFields",
                                    ItemIDOf(vaults, vaultID, targetItem),
                                    done,
                                    extractNotes(parsedItem, <<>>, <<>>)))
                        /\ UNCHANGED remote
                        /\ IF writeOk THEN at' = "save" /\ UNCHANGED ret
                           ELSE Return("err")
              ELSE LET can == writeOk /\ Cardinality(Denoted(vaults, vaultID)) = 1
                   IN  /\ calls' = Append(seen,
                              WriteCall("CreateItemFromFields",
                                   <<vaultID, targetItem>>,
                                   IF can THEN "ok" ELSE "failed",
                                   extractNotes(parsedItem, <<>>, <<>>)))
                       /\ remote' = IF can
                                    THEN remote \cup
                                         {ItemIDOf(vaults, vaultID, targetItem)}
                                    ELSE remote
                       /\ IF can THEN at' = "save" /\ UNCHANGED ret
                          ELSE Return("err")
    /\ UNCHANGED <<cmd, force, argVault, argItem, targetVault, targetItem,
                   vaultID, parsedItem, opItem, vaults, config, configFile,
                   envFile>>
    /\ UNCHANGED fileVars

\* the end of Push and of Pull: the names used are stored, Config.Save's
\* error is dropped, the success message is shown and nil returned
SavePreferencesFatal ==
    /\ at = "save"
    /\ config' = ProjectConfig(targetVault, targetItem)
    /\ \E saveOk \in BOOLEAN :
          /\ configFile' = IF saveOk THEN config' ELSE configFile
          /\ calls' = Append(calls,
                  Call("Save", <<targetVault, targetItem>>,
                       IF saveOk THEN "ok" ELSE "failed"))
                      \o (IF saveOk
                          THEN <<Call("ShowSuccess",
                                      <<targetVault, targetItem>>, "shown")>>
                          ELSE <<>>)
          /\ Return(IF saveOk THEN "nil" ELSE "err")
    /\ UNCHANGED <<cmd, force, argVault, argItem, targetVault, targetItem,
                   vaultID, parsedItem, opItem, vaults, remote, envFile>>
    /\ UNCHANGED fileVars

SavePreferences ==
    /\ at = "save"
    /\ config' = ProjectConfig(targetVault, targetItem)
    /\ \E saveOk \in BOOLEAN :
          /\ configFile' = IF saveOk THEN config' ELSE configFile
          /\ calls' = calls
                      \o <<Call("Save", <<targetVault, targetItem>>,
                                IF saveOk THEN "ok" ELSE "failed"),
                           Call("ShowSuccess", <<targetVault, targetItem>>,
                                "shown")>>
    /\ Return("nil")
    /\ UNCHANGED <<cmd, force, argVault, argItem, targetVault, targetItem,
                   vaultID, parsedItem, opItem, vaults, remote, envFile>>
    /\ UNCHANGED fileVars

\* opItem, err := GetItemByName(vaultID, targetItem): the command fails or
\* its output does not parse, and any error leads to HandleItemNotFound
PullGetItem ==
    /\ at = "item"
    /\ \E outcome \in {"ok", "cmdFailed", "badJSON"} :
          LET found == outcome = "ok"
                       /\ HasItem(vaults, remote, vaultID, targetItem)
          IN  /\ calls' = Append(calls,
                      Call("GetItemByName", <<vaultID, targetItem>>,
                           IF found THEN "ok"
                           ELSE IF outcome = "ok" THEN "notFound"
                           ELSE outcome))
              /\ IF found
                 THEN /\ opItem' \in PulledItems
                      /\ at' = "stat"
                 ELSE /\ UNCHANGED opItem
                      /\ at' = "itemNotFound"
    /\ UNCHANGED <<cmd, force, argVault, argItem, targetVault, targetItem,
                   vaultID, parsedItem, vaults, remote, config, configFile,
                   envFile, ret>>
    /\ UNCHANGED fileVars

\* selectExistingItem: the title of the entry the user picks
selectExistingItem(items) ==
    IF Len(items) = 0 THEN {Resolved(FALSE, "", vaults, "noItems")}
    ELSE {IF itemChoice < 1 \/ itemChoice > Len(items)
          THEN Resolved(TRUE, "", vaults, "invalidChoice")
          ELSE Resolved(FALSE, items[itemChoice], vaults, "selected")
          : itemChoice \in 0..(Len(items) + 1)}

\* HandleItemNotFound once ListItems has delivered the list: with items the
\* choices are 1 (select) and 2 (cancel), without items 1 cancels
itemChoices(items) ==
    (IF Len(items) > 0
     THEN selectExistingItem(items)
     ELSE {Resolved(FALSE, "", vaults, "cancelled")})
    \cup (IF Len(items) > 0
          THEN {Resolved(FALSE, "", vaults, "cancelled")}
          ELSE {})
    \cup {Resolved(TRUE, "", vaults, "invalidChoice")}

\* selectedItem, err := HandleItemNotFound(targetVault, targetItem), and
\* what Pull does with the result; the items are listed by the vault's name
HandleItemNotFound ==
    /\ at = "itemNotFound"
    /\ \E listOk \in BOOLEAN :
          \E o \in IF listOk /\ Cardinality(Denoted(vaults, targetVault)) = 1
                   THEN itemChoices(ListedItems(vaults, remote, targetVault))
                   ELSE {Resolved(TRUE, "", vaults, "listFailed")} :
              /\ calls' = Append(calls,
                      Call("HandleItemNotFound", <<targetVault, targetItem>>,
                           o.how))
                          \o (IF ~o.err /\ o.sel # ""
                              THEN <<Call("selectedItem", <<o.picked>>,
                                          o.sel)>>
                              ELSE <<>>)
              /\ IF o.err THEN Return("err") /\ UNCHANGED targetItem
                 ELSE IF o.sel = "" THEN Return("nil") /\ UNCHANGED targetItem
                 ELSE /\ targetItem' = o.sel
                      /\ at' = "itemAgain"
                      /\ UNCHANGED ret
    /\ UNCHANGED <<cmd, force, argVault, argItem, targetVault, vaultID,
                   parsedItem, opItem, vaults, remote, config, configFile,
                   envFile>>
    /\ UNCHANGED fileVars

\* opItem, err = GetItemByName(vaultID, selectedItem)
PullGetSelectedItem ==
    /\ at = "itemAgain"
    /\ \E outcome \in {"ok", "cmdFailed", "badJSON"} :
          LET found == outcome = "ok"
                       /\ HasItem(vaults, remote, vaultID, targetItem)
          IN  /\ calls' = Append(calls,
                      Call("GetItemByName", <<vaultID, targetItem>>,
                           IF found THEN "ok"
                           ELSE IF outcome = "ok" THEN "notFound"
                           ELSE outcome))
              /\ IF found
                 THEN /\ opItem' \in PulledItems
                      /\ at' = "stat"
                      /\ UNCHANGED ret
                 ELSE /\ UNCHANGED opItem
                      /\ Return("err")
    /\ UNCHANGED <<cmd, force, argVault, argItem, targetVault, targetItem,
                   vaultID, parsedItem, vaults, remote, config, configFile,
                   envFile>>
    /\ UNCHANGED fileVars

\* os.Stat(filePath) and the overwrite prompt of Pull, shown whenever the
\* file exists
PullConfirmIgnoresAnswer ==
    /\ at = "stat"
    /\ IF envFile.exists
       THEN \E response \in {"y", "n"} :
               calls' = Append(calls,
                   Call("ConfirmOverwrite", <<"File", ".env">>, response))
       ELSE UNCHANGED calls
    /\ at' = "write"
    /\ UNCHANGED <<cmd, force, argVault, argItem, targetVault, targetItem,
                   vaultID, parsedItem, opItem, vaults, remote, config,
                   configFile, envFile, ret>>
    /\ UNCHANGED fileVars

PullConfirm ==
    /\ at = "stat"
    /\ IF envFile.exists
       THEN \E response \in {"y", "n"} :
               /\ calls' = Append(calls,
                       Call("ConfirmOverwrite", <<"File", ".env">>, response))
               /\ IF response = "y" THEN at' = "write" /\ UNCHANGED ret
                  ELSE Return("nil")
       ELSE /\ at' = "write"
            /\ UNCHANGED <<calls, ret>>
    /\ UNCHANGED <<cmd, force, argVault, argItem, targetVault, targetItem,
                   vaultID, parsedItem, opItem, vaults, remote, config,
                   configFile, envFile>>
    /\ UNCHANGED fileVars

\* what a failing write can leave of a file content: nothing, or all but
\* the last byte
Truncations(data) == {SubSeq(data, 1, k) : k \in {0, Len(data) - 1}}

\* err = WriteItemToEnvFile(filePath, opItem): the error of os.Create is
\* returned, the results of the WriteString calls are dropped, so that a
\* write that fails leaves a part of the file and nil is returned
PullWrite ==
    /\ at = "write"
    /\ cmd = "pull"
    /\ \E outcome \in {"ok", "create", "write"} :
          /\ calls' = (IF outcome = "write"
                       THEN Append(calls,
                                Call("WriteString", <<".env">>, "err"))
                       ELSE calls)
                      \o <<Call("WriteItemToEnvFile", <<".env">>,
                                IF outcome = "create" THEN "err" ELSE "nil")>>
          /\ IF outcome = "create"
             THEN /\ Return("err")
                  /\ UNCHANGED envFile
             ELSE /\ \E full \in writeOutputs(opItem) :
                        envFile' \in
                            {EnvFile(TRUE, d) :
                                d \in IF outcome = "ok" THEN {full}
                                      ELSE Truncations(full)}
                  /\ at' = "save"
                  /\ UNCHANGED ret
    /\ UNCHANGED <<cmd, force, argVault, argItem, targetVault, targetItem,
                   vaultID, parsedItem, opItem, vaults, remote, config,
                   configFile>>
    /\ UNCHANGED fileVars

SyncNext ==
    \/ PushBegin
    \/ PullBegin
    \/ ResolveVault
    \/ HandleVaultNotFound
    \/ ResolveSelectedVault
    \/ PushParse
    \/ PushConfirm
    \/ PushWrite
    \/ PullGetItem
    \/ HandleItemNotFound
    \/ PullGetSelectedItem
    \/ PullConfirm
    \/ PullWrite
    \/ SavePreferences

SyncSpec == SyncInit /\ [][SyncNext]_vars

\* ------------------------------------------------------------------------
\* Helpers of the properties
\* ------------------------------------------------------------------------
\* the fields other than the notes field
NonNotes(fs) == SelectSeq(fs, LAMBDA f : f.ID # NotesID)

\* the {name, type, value, section} tuples of the fields other than notes
Tuples(fs) ==
    {<<fs[i].Label, fs[i].Type, fs[i].Value, fs[i].Section>> :
        i \in {j \in 1..Len(fs) : fs[j].ID # NotesID}}

\* a field that is to be written: not the notes field, value not empty
keepFieldTarget(f) == f.ID # NotesID /\ f.Value # <<>>

\* the lines of a written file that follow its header block
BodyLines(data) ==
    LET ls == ScanLines(data)
    IN  IF HasPrefix(data, delimiterLine)
        THEN LET close == CHOOSE k \in 2..Len(ls) :
                              /\ ls[k] = ls[1]
                              /\ \A j \in 2..(k - 1) : ls[j] # ls[1]
             IN  SubSeq(ls, close + 1, Len(ls))
        ELSE ls

\* number of elements of a sequence equal to x
Count(sq, x) == Cardinality({i \in 1..Len(sq) : sq[i] = x})

\* the line of the scan step that has just run, trimmed
lastLine == TrimSpace(text)

RECURSIVE markersOf(_)
markersOf(ls) ==
    IF ls = <<>> THEN <<>>
    ELSE IF HasPrefix(Head(ls), <<"#", " ">>)
         THEN <<TrimPrefix(Head(ls), <<"#", " ">>)>> \o markersOf(Tail(ls))
         ELSE markersOf(Tail(ls))

\* C2: the marker lines of the written file stand in the order in which the
\* sections first occur in item.Fields.
SectionsInFirstSeenOrder ==
    (pc = "written") => markersOf(BodyLines(out)) = firstSeen(item, <<>>)

\* ------------------------------------------------------------------------
\* C3  Determinism and idempotence of the serializer
\* ------------------------------------------------------------------------
\* C3: two runs of WriteItemToEnvFile on one record write the same bytes,
\* and writing the record parsed from a written file reproduces that file.
WriteDeterministicAndIdempotent ==
    /\ (pc = "written" /\ writes = 2) => out = outPrev
    /\ (pc = "rewritten") => out2 = out


\* ------------------------------------------------------------------------
\* C4  getFieldType
\* ------------------------------------------------------------------------
\* the substrings that make a name sensitive
SensitiveWords ==
    { <<"P","A","S","S","W","O","R","D">>, <<"P","A","S","S">>,
      <<"S","E","C","R","E","T">>, <<"K","E","Y">>, <<"T","O","K","E","N">>,
      <<"A","U","T","H">>, <<"C","R","E","D","E","N","T","I","A","L">>,
      <<"H","A","S","H">>, <<"S","A","L","T">> }

\* the type a name must get: CONCEALED exactly when its upper-cased form
\* holds one of the words at some position
ExpectedType(name) ==
    IF \E w \in SensitiveWords :
          \E i \in 1..Len(name) :
              /\ i + Len(w) - 1 <= Len(name)
              /\ \A j \in 1..Len(w) : ToUpperChar(name[i + j - 1]) = w[j]
    THEN "CONCEALED"
    ELSE "STRING"

\* C4: getFieldType returns CONCEALED exactly for the names that contain a
\* sensitive word, whatever their case, and every field the parser produces
\* other than notes has the type of its label.
FieldTypeByKeyword ==
    /\ (pc = "typed") => fieldType = ExpectedType(fieldName)
    /\ \A i \in 1..Len(fields) : fields[i].Type = ExpectedType(fields[i].Label)
    /\ \A i \in 1..Len(item) :
          (origin = "file" /\ item[i].ID # NotesID)
              => item[i].Type = ExpectedType(item[i].Label)
    /\ \A i \in 1..Len(item2) :
          (item2[i].ID # NotesID)
              => item2[i].Type = ExpectedType(item2[i].Label)

\* a lower-case name with a sensitive word was classified
FieldTypeWitness ==
    /\ pc = "typed"
    /\ fieldType = "CONCEALED"
    /\ fieldName # ToUpper(fieldName)


\* ------------------------------------------------------------------------
\* C5  Empty values are not written
\* ------------------------------------------------------------------------
\* the labels of the named sections of a record
SectionLabels(fs) ==
    {fs[i].Section.label :
        i \in {j \in 1..Len(fs) :
                  /\ fs[j].ID # NotesID
                  /\ ~fs[j].Section.isNil
                  /\ fs[j].Section.hasLabel
                  /\ fs[j].Section.label # <<>>}}

\* every field of the section with that label has an empty value
AllEmpty(fs, label) ==
    \A i \in 1..Len(fs) :
        (fs[i].ID # NotesID /\ sectionNameOf(fs[i]) = label)
            => fs[i].Value = <<>>

NoEmptyWritten(fs, data) ==
    LET ls == ScanLines(data)
        body == BodyLines(data)
    IN  /\ \A i \in 1..Len(fs) :
              (fs[i].ID # NotesID /\ fs[i].Value = <<>>)
                  => Count(ls, fs[i].Label \o <<"=", "'", "'">>) = 0
        /\ \A l \in SectionLabels(fs) :
              AllEmpty(fs, l) => Count(body, <<"#", " ">> \o l) = 0

\* C5: the written file has no NAME='' line for a field with an empty value
\* and no marker line for a section whose fields all have empty values.
EmptyValuesNotWritten ==
    /\ (pc \in {"written", "reparsed", "rewritten"}) => NoEmptyWritten(item, out)
    /\ (pc = "rewritten") => NoEmptyWritten(item2, out2)

\* a record with a section of empty values only, next to a written field
EmptyValuesWitness ==
    /\ pc = "written"
    /\ \E l \in SectionLabels(item) : AllEmpty(item, l)
    /\ \E i \in 1..Len(item) : keepFieldTarget(item[i])

\* ------------------------------------------------------------------------
\* C6  Quote stripping
\* ------------------------------------------------------------------------
\* one layer of matching quotes removed, anything else left as it is
OneLayerStripped(value) ==
    IF /\ Len(value) >= 2
       /\ value[1] = value[Len(value)]
       /\ value[1] \in {"'", "\""}
    THEN SubSeq(value, 2, Len(value) - 1)
    ELSE value

\* the scan step that has just run matched a variable line outside the header
VarLineScanned ==
    /\ pc = "scan"
    /\ lineNo >= 1
    /\ ~inHeader
    /\ varPatternMatches(lastLine)

\* C6: the value stored for a KEY=VALUE line is VALUE with one layer of
\* surrounding quotes removed when its first and last characters are the
\* same quote character, and VALUE unchanged otherwise.
OneQuoteLayerStripped ==
    VarLineScanned =>
        /\ fields # <<>>
        /\ fields[Len(fields)].Value = OneLayerStripped(varPatternValue(lastLine))

\* ------------------------------------------------------------------------
\* C7  Values are written in single quotes
\* ------------------------------------------------------------------------
\* every kept field has its NAME='VALUE' line, as often as the record holds
\* that name with that value
SingleQuotedLines(fs, data) ==
    LET ls == ScanLines(data)
    IN  \A i \in 1..Len(fs) :
            keepFieldTarget(fs[i]) =>
                Count(ls, fs[i].Label \o <<"=", "'">> \o fs[i].Value \o <<"'">>)
                = Cardinality({j \in 1..Len(fs) :
                                  /\ keepFieldTarget(fs[j])
                                  /\ fs[j].Label = fs[i].Label
                                  /\ fs[j].Value = fs[i].Value})

\* a value given as 'w' or "w", w without quotes at its ends
QuotedOnce(value) ==
    /\ Len(value) >= 3
    /\ value[1] = value[Len(value)]
    /\ value[1] \in {"'", "\""}
    /\ value[2] \notin {"'", "\""}
    /\ value[Len(value) - 1] \notin {"'", "\""}

\* C7: every non-notes field with a non-empty value is written as one line
\* NAME='VALUE'; a value quoted with ' or " in the input is stored without
\* the quotes.
ValuesSingleQuoted ==
    /\ (pc \in {"written", "reparsed", "rewritten"})
          => SingleQuotedLines(item, out)
    /\ (pc = "rewritten") => SingleQuotedLines(item2, out2)
    /\ (VarLineScanned /\ QuotedOnce(varPatternValue(lastLine)))
          => fields[Len(fields)].Value
                 = SubSeq(varPatternValue(lastLine), 2,
                          Len(varPatternValue(lastLine)) - 1)

\* the last line of the file gave its value in double quotes and the value
\* stands in single quotes in the written file
ValuesSingleQuotedWitness ==
    /\ pc = "written"
    /\ origin = "file"
    /\ ~inHeader
    /\ varPatternMatches(lastLine)
    /\ varPatternValue(lastLine) = <<"\"", "v", "\"">>
    /\ Count(ScanLines(out),
             varPatternKey(lastLine) \o <<"=", "'", "v", "'">>) >= 1


\* ------------------------------------------------------------------------
\* C8  The parser is total
\* ------------------------------------------------------------------------
\* a scan step is taken: the loop body runs on the line text'
ScanStep == pc = "scan" /\ pc' = "scan" /\ lineNo' = lineNo + 1

\* the line is outside every construct: not blank, no "#" line, no match of
\* ^[A-Z_][A-Z0-9_]*=.*$
Unrecognized(ln) ==
    LET line == TrimSpace(ln)
    IN  /\ line # <<>>
        /\ Head(line) # "#"
        /\ ~varPatternMatches(line)

\* the part of C8 about unrecognized lines: outside the header such a line
\* adds no field and leaves currentSection, inHeader and the note lines as
\* they were
UnrecognizedLineSkipped ==
    [][(ScanStep /\ ~inHeader /\ Unrecognized(text'))
          => UNCHANGED <<fields, currentSection, inHeader, headerLines>>]_vars

\* C8: ParseEnvFileToItem fails on a file that opens and reads only for a
\* reason other than the file's content, that is never, and an unrecognized
\* line outside the header changes nothing.
ParseNeverFailsOnContent ==
    /\ [](pc = "parseFailed" => scanErr \in {"open", "read"})
    /\ UnrecognizedLineSkipped

\* ------------------------------------------------------------------------
\* C9  The header delimiter toggles inHeader
\* ------------------------------------------------------------------------
\* C9: inHeader is true exactly after an odd number of delimiter lines; a
\* delimiter line flips it and adds no note line, section or field; no other
\* line changes it.
DelimiterTogglesHeader ==
    /\ [](inHeader = (delims % 2 = 1))
    /\ [][ScanStep =>
            IF headerStartPattern(TrimSpace(text'))
            THEN /\ inHeader' = ~inHeader
                 /\ UNCHANGED <<headerLines, currentSection, fields>>
            ELSE inHeader' = inHeader]_vars

\* a third delimiter line has opened the header again
DelimiterWitness ==
    /\ pc = "scan"
    /\ delims = 3
    /\ inHeader
    /\ headerStartPattern(lastLine)

\* ------------------------------------------------------------------------
\* C10  Inside the header
\* ------------------------------------------------------------------------
\* C10: a line scanned while the header is open produces no field and does
\* not change currentSection; a "#" line there is appended to the note
\* lines without its "#", any other line is ignored; a scan that ends with
\* the header still open returns the fields and the notes collected.
HeaderSwallowsLines ==
    /\ [][(ScanStep /\ inHeader /\ inHeader') =>
            /\ UNCHANGED <<fields, currentSection>>
            /\ headerLines' =
                 IF TrimSpace(text') # <<>> /\ Head(TrimSpace(text')) = "#"
                 THEN Append(headerLines, Tail(TrimSpace(text')))
                 ELSE headerLines]_vars
    /\ []((pc = "parsed" /\ inHeader) =>
            /\ NonNotes(item) = fields
            /\ (headerLines = <<>> => item = fields)
            /\ (headerLines # <<>> =>
                  /\ Len(item) = Len(fields) + 1
                  /\ item[Len(item)].ID = NotesID
                  /\ Split(item[Len(item)].Value, "\n") = headerLines))

\* the header was never closed and a KEY=VALUE line inside it was ignored
HeaderOpenWitness ==
    /\ pc = "parsed"
    /\ inHeader
    /\ delims = 1
    /\ varPatternMatches(lastLine)
    /\ headerLines # <<>>
    /\ fields = <<>>

\* ------------------------------------------------------------------------
\* C11  Spacing of the header comments
\* ------------------------------------------------------------------------
\* the lines of the header block of a written file, without its delimiters
HeaderOf(data) ==
    LET ls == ScanLines(data)
    IN  IF HasPrefix(data, delimiterLine)
        THEN LET close == CHOOSE k \in 2..Len(ls) :
                              /\ ls[k] = ls[1]
                              /\ \A j \in 2..(k - 1) : ls[j] # ls[1]
             IN  SubSeq(ls, 2, close - 1)
        ELSE <<>>

\* "#", exactly one space, then a text that does not begin with a space
OneSpaceComment(ln) ==
    /\ Len(ln) >= 3
    /\ ln[1] = "#"
    /\ ln[2] = " "
    /\ ln[3] # " "

\* a header line "#", one or more spaces, text T has just been scanned
SpacedNoteScanned ==
    /\ pc = "scan"
    /\ lineNo >= 1
    /\ inHeader
    /\ Len(lastLine) >= 3
    /\ lastLine[1] = "#"
    /\ lastLine[2] = " "
    /\ ~headerStartPattern(lastLine)

\* C11: a header line "#", spaces, T is stored as T, without the "#" and
\* without the spaces after it, and the file written from the parsed item
\* shows every note line as "# T" with exactly one space after the "#".
HeaderSpacingNormalized ==
    /\ SpacedNoteScanned =>
          /\ headerLines # <<>>
          /\ headerLines[Len(headerLines)] = TrimSpace(Tail(lastLine))
    /\ (pc = "written" /\ origin = "file") =>
          \A i \in 1..Len(HeaderOf(out)) : OneSpaceComment(HeaderOf(out)[i])

\* ------------------------------------------------------------------------
\* C12  End of the written file
\* ------------------------------------------------------------------------
\* number of empty elements at the end of a sequence of lines
RECURSIVE TrailingEmpty(_)
TrailingEmpty(ls) ==
    IF ls = <<>> \/ ls[Len(ls)] # <<>> THEN 0
    ELSE 1 + TrailingEmpty(SubSeq(ls, 1, Len(ls) - 1))

\* C12: the file written from a parsed item, split on "\n", ends with
\* exactly one empty element: no blank line follows the last variable line.
SingleTrailingNewline ==
    (pc = "written" /\ origin = "file")
        => TrailingEmpty(Split(out, "\n")) = 1

\* ------------------------------------------------------------------------
\* C13  The section of a field
\* ------------------------------------------------------------------------
\* a "#" line that is not a delimiter line
HashLine(ln) == ln # <<>> /\ Head(ln) = "#" /\ ~headerStartPattern(ln)

\* what stands after the "#" of a "#" line, trimmed
Payload(ln) == TrimSpace(Tail(ln))

\* the section a field gets while the current section is named name
SectionNamed(name) == IF name = <<>> THEN NilSection ELSE LabelSection(name)

\* a scan step outside the header moves the current section as marker says
\* it should for the trimmed line ln, gives a field appended by the step the
\* current section, and changes nothing on a blank line
SectionStep(marker(_)) ==
    LET ln == TrimSpace(text')
    IN  /\ currentSection' =
              IF ~inHeader /\ marker(ln) THEN Payload(ln) ELSE currentSection
        /\ (~inHeader /\ varPatternMatches(ln)) =>
              /\ Len(fields') = Len(fields) + 1
              /\ fields'[Len(fields')].Section = SectionNamed(currentSection)
        /\ ln = <<>> =>
              UNCHANGED <<currentSection, fields, inHeader, headerLines>>

\* the fields returned are the fields appended, none has changed its section
SectionsKept ==
    /\ pc = "scan" =>
          \A i \in 1..Len(fields) :
              fields[i].Section.isNil \/ fields[i].Section.label # <<>>
    /\ pc = "parsed" => NonNotes(item) = fields

RECURSIVE BeforeEquals(_)
BeforeEquals(ln) ==
    IF ln = <<>> \/ Head(ln) = "=" THEN <<>>
    ELSE <<Head(ln)>> \o BeforeEquals(Tail(ln))

\* the positions of the notes fields of a field sequence
NotesAt(fs) == {i \in 1..Len(fs) : fs[i].ID = NotesID}

\* a scan step appends one field, named as the line, for a KEY=VALUE line
\* outside the header and leaves the field sequence alone for any other line
OneFieldPerVarLine ==
    LET ln == TrimSpace(text')
    IN  IF ~inHeader /\ varPatternMatches(ln)
        THEN /\ Len(fields') = Len(fields) + 1
             /\ SubSeq(fields', 1, Len(fields)) = fields
             /\ fields'[Len(fields')].Label = BeforeEquals(ln)
             /\ fields'[Len(fields')].ID # NotesID
        ELSE fields' = fields

\* the item returned: the fields of the scan, then the notes field if any
NotesFieldIffNoteLines ==
    pc = "parsed" =>
        /\ NonNotes(item) = fields
        /\ Cardinality(NotesAt(item)) <= 1
        /\ (NotesAt(item) # {}) <=> (headerLines # <<>>)
        /\ \A i \in NotesAt(item) :
              /\ i = Len(item)
              /\ item[i].Value = Join(headerLines, <<"\n">>)
        /\ delims = 0 => NotesAt(item) = {}

\* C14: the item has exactly one field per KEY=VALUE line outside the
\* header, in input order, plus one notesPlain field, holding the note
\* lines joined by newline, iff a note line was collected; a text without
\* header delimiters yields no notesPlain field.
FieldsAreVarLinesPlusNotes ==
    /\ []NotesFieldIffNoteLines
    /\ [][ScanStep => OneFieldPerVarLine]_vars

\* a delimited header with one note line and one variable line: two fields
FieldsWitness ==
    /\ pc = "parsed"
    /\ delims = 2
    /\ ~inHeader
    /\ Len(headerLines) = 1
    /\ Len(item) = 2
    /\ item[1].ID # NotesID
    /\ item[2].ID = NotesID
    /\ item[2].Value = headerLines[1]

\* ------------------------------------------------------------------------
\* C15  Layout of the written file
\* ------------------------------------------------------------------------
\* the runs of non-empty lines of a sequence of lines
RECURSIVE Groups(_, _)
Groups(ls, run) ==
    IF ls = <<>> THEN (IF run = <<>> THEN <<>> ELSE <<run>>)
    ELSE IF Head(ls) = <<>>
         THEN (IF run = <<>> THEN <<>> ELSE <<run>>) \o Groups(Tail(ls), <<>>)
         ELSE Groups(Tail(ls), Append(run, Head(ls)))

\* the section label of a field, <<>> for a field without one
TargetLabel(f) ==
    IF f.Section.isNil \/ ~f.Section.hasLabel THEN <<>> ELSE f.Section.label

\* the NAME='VALUE' lines, in field order, of the written fields of fs
\* whose section label is label
ExpectedLines(fs, label) ==
    LET own == SelectSeq(fs, LAMBDA f :
                   keepFieldTarget(f) /\ TargetLabel(f) = label)
    IN  [i \in 1..Len(own) |->
            own[i].Label \o <<"=", "'">> \o own[i].Value \o <<"'">>]

\* the value of the notes field of fs, <<>> without one
NotesValue(fs) ==
    IF NotesAt(fs) = {} THEN <<>>
    ELSE fs[CHOOSE i \in NotesAt(fs) : \A j \in NotesAt(fs) : j <= i].Value

\* data is laid out as C15 says for the fields fs
LaidOut(fs, data) ==
    LET gs      == Groups(BodyLines(data), <<>>)
        marked  == {i \in 1..Len(gs) : Head(gs[i][1]) = "#"}
        labels  == {TargetLabel(fs[i]) :
                       i \in {j \in 1..Len(fs) : keepFieldTarget(fs[j])}}
                   \ {<<>>}
    IN  /\ (NotesValue(fs) # <<>>) <=> HasPrefix(data, delimiterLine)
        /\ \A i \in (1..Len(gs)) \ marked :
              /\ i = 1
              /\ gs[i] = ExpectedLines(fs, <<>>)
        /\ ExpectedLines(fs, <<>>) # <<>> => 1 \notin marked /\ gs # <<>>
        /\ \A i \in marked :
              \E l \in labels :
                  /\ gs[i][1] = <<"#", " ">> \o l
                  /\ Tail(gs[i]) = ExpectedLines(fs, l)
        /\ \A l \in labels :
              Cardinality({i \in marked : gs[i][1] = <<"#", " ">> \o l}) = 1

\* C15: in the written file the header block comes first when the notes are
\* not empty, then the fields without a section, then each named section as
\* one marker line followed by exactly its fields; the fields of a bucket
\* keep their order in item.Fields and no label is a marker twice.
OutputLayout ==
    /\ pc = "written" => LaidOut(item, out)
    /\ pc = "rewritten" => LaidOut(item2, out2)

\* a file with a field without a section and then a section of two fields
\* has been written
OutputLayoutWitness ==
    /\ pc = "written"
    /\ origin = "file"
    /\ Len(Groups(BodyLines(out), <<>>)) = 2
    /\ Head(Groups(BodyLines(out), <<>>)[1][1]) # "#"
    /\ Len(Groups(BodyLines(out), <<>>)[2]) = 3
    /\ Groups(BodyLines(out), <<>>)[2][1] = <<"#", " ", "S">>

\* ------------------------------------------------------------------------
\* C16  pull --force
\* ------------------------------------------------------------------------
\* C16: a pull command given --force never shows the overwrite prompt; a
\* target file that exists is overwritten without ConfirmOverwrite.
PullForceSkipsConfirm ==
    (cmd = "pull" /\ force) => CallsOf("ConfirmOverwrite") = <<>>

\* ------------------------------------------------------------------------
\* C17  Push asks before it overwrites
\* ------------------------------------------------------------------------
\* the positions of the log entries of one name
CallsAt(name) == {i \in 1..Len(calls) : calls[i].call = name}

\* the user agreed to the overwrite before log position i
AgreedBefore(i) ==
    \E j \in CallsAt("ConfirmOverwrite") : j < i /\ calls[j].result = "y"

\* the user declined the overwrite
Declined ==
    \E j \in CallsAt("ConfirmOverwrite") : calls[j].result = "n"

\* C17: without force Push updates an item that exists only after
\* ConfirmOverwrite returned true; when the user declines, Push returns nil
\* and has made no create or update call; with force no prompt is shown.
PushAsksBeforeOverwrite ==
    cmd = "push" =>
        /\ ~force =>
              \A i \in CallsAt("UpdateItemFields") : AgreedBefore(i)
        /\ Declined =>
              /\ ret = "nil"
              /\ CallsAt("UpdateItemFields") = {}
              /\ CallsAt("CreateItemFromFields") = {}
        /\ force => CallsAt("ConfirmOverwrite") = {}

\* the same for the runs in which both ItemExists calls of Push gave the
\* same answer
PushAsksWhenStoreAnswersAlike ==
    (cmd = "push"
     /\ \A i, j \in CallsAt("ItemExists") : calls[i].result = calls[j].result)
        => PushAsksBeforeOverwrite

\* ------------------------------------------------------------------------
\* C18  File I/O failures
\* ------------------------------------------------------------------------
\* the .env file could not be opened, read, created or written at log
\* position i
FileFailureAt(i) ==
    \/ calls[i].call = "ParseEnvFileToItem" /\ calls[i].result # "ok"
    \/ calls[i].call = "WriteItemToEnvFile" /\ calls[i].result = "err"
    \/ calls[i].call = "WriteString" /\ calls[i].result = "err"

\* C18: when opening, reading, creating or writing the .env file fails,
\* ParseEnvFileToItem or WriteItemToEnvFile returns an error, and Push or
\* Pull returns an error and shows no success message.
FileFailuresAreFatal ==
    \A i \in 1..Len(calls) :
        FileFailureAt(i) =>
            /\ calls[i].call = "WriteString" =>
                  /\ i < Len(calls)
                  /\ calls[i + 1].call = "WriteItemToEnvFile"
                  /\ calls[i + 1].result = "err"
            /\ at = "done" =>
                  /\ ret = "err"
                  /\ CallsAt("ShowSuccess") = {}

\* ------------------------------------------------------------------------
\* C19  When the resolvers run
\* ------------------------------------------------------------------------
\* log position i is a resolver call, and the store call before it did not
\* say "not found" but failed
ResolverAfterFailure(i) ==
    /\ calls[i].call \in {"HandleVaultNotFound", "HandleItemNotFound"}
    /\ calls[i - 1].result # "notFound"

\* a store lookup of Push or Pull failed for another reason than absence
LookupFailed ==
    \E i \in 1..Len(calls) :
        /\ calls[i].call \in {"GetVaultIdentifier", "GetItemByName"}
        /\ calls[i].result \in {"listFailed", "cmdFailed", "badJSON"}

\* C19: HandleVaultNotFound and HandleItemNotFound run only after the store
\* said that the vault or item does not exist; after a store lookup that
\* failed for another reason Push and Pull return an error and no resolver
\* has run.
ResolversOnlyWhenNotFound ==
    /\ \A i \in 2..Len(calls) : ~ResolverAfterFailure(i)
    /\ (LookupFailed /\ at = "done") =>
          /\ ret = "err"
          /\ CallsAt("HandleVaultNotFound") = {}
          /\ CallsAt("HandleItemNotFound") = {}

\* ------------------------------------------------------------------------
\* C20  Config.Save may fail
\* ------------------------------------------------------------------------
\* the remote write of Push or the file write of Pull went through
WriteSucceeded ==
    \/ \E i \in CallsAt("UpdateItemFields") : calls[i].result = "ok"
    \/ \E i \in CallsAt("CreateItemFromFields") : calls[i].result = "ok"
    \/ \E i \in CallsAt("WriteItemToEnvFile") : calls[i].result = "nil"

\* C20: once the remote write of Push or the file write of Pull has
\* succeeded, the operation returns nil and shows the success message, also
\* when Config.Save returns an error.
SaveFailureIsNotFatal ==
    /\ (at = "done" /\ WriteSucceeded) =>
          /\ ret = "nil"
          /\ CallsAt("Save") # {}
          /\ CallsAt("ShowSuccess") # {}
    /\ (at = "done" /\ \E i \in CallsAt("Save") : calls[i].result = "failed")
          => (ret = "nil" /\ WriteSucceeded /\ CallsAt("ShowSuccess") # {})

\* a Push whose update went through and whose Config.Save failed
SaveFailureWitness ==
    /\ cmd = "push"
    /\ at = "done"
    /\ ret = "nil"
    /\ \E i \in CallsAt("UpdateItemFields") : calls[i].result = "ok"
    /\ \E i \in CallsAt("Save") : calls[i].result = "failed"
    /\ configFile # config

\* ------------------------------------------------------------------------
\* C21  A parse failure ends Push
\* ------------------------------------------------------------------------
\* ParseEnvFileToItem returned an error to Push
ParseFailed ==
    \E i \in CallsAt("ParseEnvFileToItem") : calls[i].result # "ok"

\* C21: when ParseEnvFileToItem fails, Push returns an error at once: no
\* create or update call is made, no overwrite prompt is shown and the
\* saved preferences stay as they were.
ParseFailureEndsPush ==
    /\ [](ParseFailed =>
            /\ at = "done"
            /\ ret = "err"
            /\ calls[Len(calls)].call = "ParseEnvFileToItem"
            /\ CallsAt("CreateItemFromFields") = {}
            /\ CallsAt("UpdateItemFields") = {}
            /\ CallsAt("ConfirmOverwrite") = {}
            /\ CallsAt("Save") = {})
    /\ [][(at = "parse" /\ Len(calls') = Len(calls) + 1
           /\ calls'[Len(calls')].result # "ok")
            => UNCHANGED <<config, configFile, remote, envFile>>]_vars

\* the file of a Push of an existing item could not be read
ParseFailureWitness ==
    /\ cmd = "push"
    /\ at = "done"
    /\ ret = "err"
    /\ ~force
    /\ envFile.exists
    /\ HasItem(vaults, remote, vaultID, targetItem)
    /\ \E i \in CallsAt("ParseEnvFileToItem") : calls[i].result = "read"

\* ------------------------------------------------------------------------
\* C22  GetVaultIdentifier
\* ------------------------------------------------------------------------
\* the positions in the vault list of the vaults called name
Named(name) == {i \in 1..Len(vaults) : vaults[i].Name = name}

\* the first of a non-empty set of positions
First(positions) == CHOOSE i \in positions : \A j \in positions : i <= j

\* GetVaultIdentifier has just returned
IdentifierReturned ==
    /\ calls # <<>>
    /\ calls[Len(calls)].call = "GetVaultIdentifier"

\* C22: on the vault list delivered, GetVaultIdentifier(name) fails iff no
\* vault is called name, returns name when exactly one vault is called so,
\* and the ID of the first such vault of the list when there are several.
VaultIdentifierByName ==
    IdentifierReturned =>
        LET c == calls[Len(calls)]
            named == Named(c.args[1])
        IN  /\ c.result = "listFailed" => at \in {"vaultNotFound", "done"}
            /\ c.result # "listFailed" =>
                  /\ (c.result = "notFound") <=> (named = {})
                  /\ Cardinality(named) = 1 => vaultID = c.args[1]
                  /\ Cardinality(named) > 1 => vaultID = vaults[First(named)].ID

\* two vaults are called as asked for, the ID of the first one came back
VaultIdentifierWitness ==
    /\ IdentifierReturned
    /\ calls[Len(calls)].result = "ok"
    /\ Cardinality(Named(targetVault)) = 2
    /\ vaultID = vaults[1].ID
    /\ vaultID # targetVault

\* ------------------------------------------------------------------------
\* C23  resolveTarget
\* ------------------------------------------------------------------------
\* resolveTarget has just run
TargetResolved == at = "vault"

RemoteWriteStep ==
    /\ cmd = "push"
    /\ at = "write"
    /\ at' # "write"
    /\ calls'[Len(calls')].call # "GetItemByName"

\* the log entry the step adds after its ItemExists is the one write call
\* that existed asks for, and carries the notes apart from the fields
OneWriteCall(existed) ==
    LET w == calls'[Len(calls')]
    IN  /\ Len(calls') = Len(calls) + 2
        /\ calls'[Len(calls) + 1].call = "ItemExists"
        /\ IF existed
           THEN /\ w.call = "UpdateItemFields"
                /\ w.args = ItemIDOf(vaults, vaultID, targetItem)
           ELSE /\ w.call = "CreateItemFromFields"
                /\ w.args = <<vaultID, targetItem>>
        /\ NotesAt(w.fields) = {}
        /\ w.fields = NonNotes(parsedItem)
        /\ w.notes = NotesValue(parsedItem)

\* no write call is made outside that step
WriteCallsOnlyThere ==
    Cardinality(CallsAt("UpdateItemFields") \cup CallsAt("CreateItemFromFields"))
        <= 1

\* C24: a Push that reaches the remote write calls exactly one of
\* UpdateItemFields and CreateItemFromFields, once: UpdateItemFields with
\* the ID of the existing item iff the item exists in the resolved vault,
\* CreateItemFromFields otherwise; the notes go in the notes argument and
\* no notesPlain field is in the field list.
PushWritesOnceAsStored ==
    /\ []WriteCallsOnlyThere
    /\ [][RemoteWriteStep =>
            OneWriteCall(HasItem(vaults, remote, vaultID, targetItem))]_vars

\* the same with "exists" read as the answer of the second ItemExists
PushWritesOnceAsAnswered ==
    /\ []WriteCallsOnlyThere
    /\ [][RemoteWriteStep =>
            OneWriteCall(calls'[Len(calls) + 1].result = "true")]_vars

\* the name the user selected or created in the resolver called name, ""
\* when that resolver made no substitution
SelectedBy(name) ==
    IF CallsAt(name) = {} THEN ""
    ELSE calls[CHOOSE i \in CallsAt(name) :
                   \A j \in CallsAt(name) : j <= i].result

\* the step changes the preferences of the working directory, in memory or
\* in the configuration file
PreferencesChange ==
    config' # config \/ configFile' # configFile

\* the step is the one after a write that returned without error; it sets
\* the names finally used, the selected ones after a substitution, writes
\* them to the configuration file unless Save fails, and ends with nil
PreferencesStep ==
    /\ at = "save"
    /\ ret = "none"
    /\ WriteSucceeded
    /\ config' = ProjectConfig(targetVault, targetItem)
    /\ configFile' \in {configFile, config'}
    /\ SelectedBy("selectedVault") # ""
          => config'.Vault = SelectedBy("selectedVault")
    /\ SelectedBy("selectedItem") # ""
          => config'.Item = SelectedBy("selectedItem")
    /\ ret' = "nil"

\* C25: Push and Pull change the saved preferences only on the success
\* path, after the remote write or the file write returned without error,
\* and then store the vault and item names finally used; every error return
\* and every cancellation leaves the preferences as they were.
PreferencesOnlyOnSuccess ==
    [][PreferencesChange => PreferencesStep]_vars

\* a run that ended with nil after the user selected another vault and the
\* write succeeded: the configuration file holds the selected vault and the
\* item name used
PreferencesWitness ==
    /\ ret = "nil"
    /\ WriteSucceeded
    /\ SelectedBy("selectedVault") # ""
    /\ SelectedBy("selectedVault") # argVault
    /\ configFile = ProjectConfig(SelectedBy("selectedVault"), targetItem)
    /\ \E i \in CallsAt("Save") : calls[i].result = "ok"

\* the step creates, truncates or modifies the local file
FileChange == envFile' # envFile

\* the step is the file write of Pull, reached with the vault and the item
\* resolved and, when the file was there, after the user agreed
PullWriteStep ==
    /\ cmd = "pull"
    /\ at = "write"
    /\ CallsAt("GetItemByName") # {}
    /\ calls[CHOOSE i \in CallsAt("GetItemByName") :
                 \A j \in CallsAt("GetItemByName") : j <= i].result = "ok"
    /\ envFile.exists => AgreedBefore(Len(calls) + 1)
    /\ ~Declined

\* C26: Pull leaves the local file untouched unless it goes on to write it:
\* when the user declines the overwrite prompt, cancels the vault or item
\* selection, or the vault or item cannot be resolved, Pull returns without
\* creating, truncating or modifying the file.
PullTouchesFileOnlyToWrite ==
    [][/\ (cmd = "pull" /\ FileChange) => PullWriteStep
       /\ (cmd' = "pull" /\ Declined') =>
              (~FileChange /\ (ret # "none" \/ ret' = "nil"))]_vars

\* a Pull that found the file, asked, was told no and returned nil without a
\* write call
PullDeclinedWitness ==
    /\ cmd = "pull"
    /\ ret = "nil"
    /\ envFile.exists
    /\ Declined
    /\ CallsAt("WriteItemToEnvFile") = {}
    /\ CallsAt("Save") = {}

\* the ID of the list entry the user picked in selectExistingVault, "" when
\* no entry was picked
PickedVault ==
    IF CallsAt("selectedVault") = {} THEN ""
    ELSE calls[CHOOSE i \in CallsAt("selectedVault") : TRUE].args[1]

\* the vaults the store takes the identifier of the run for
VaultsOfIdentifier == {vaults[i].ID : i \in Denoted(vaults, vaultID)}

\* the run has the identifier it passes to the store calls after a pick
IdentifierAfterPick ==
    /\ PickedVault # ""
    /\ at \in {"parse", "confirm", "write", "item", "itemNotFound",
               "itemAgain", "stat", "save", "done"}
    /\ \E i \in CallsAt("GetVaultIdentifier") :
          /\ \E j \in CallsAt("selectedVault") : j < i
          /\ calls[i].result = "ok"

\* C27: when the user picks entry number i of the vault list shown by
\* selectExistingVault, the vault identifier that Push and Pull pass to the
\* store calls denotes that i-th vault, also when several vaults share the
\* name.
PickedVaultIsUsed ==
    IdentifierAfterPick => VaultsOfIdentifier = {PickedVault}

\* the same for a pick among vaults of different names
PickedVaultIsUsedWhenNamesDiffer ==
    (/\ IdentifierAfterPick
     /\ \A i, j \in 1..Len(vaults) :
           vaults[i].Name = vaults[j].Name => i = j)
        => VaultsOfIdentifier = {PickedVault}

\* a run that went on with the picked vault of a list without shared names
PickedVaultWitness ==
    /\ IdentifierAfterPick
    /\ Len(vaults) = 2
    /\ vaults[1].Name # vaults[2].Name
    /\ PickedVault = vaults[2].ID

====
